---- MODULE Spec2Model ----
(***************************************************************************)
(* A model of the offline PMTiles plugin for MapLibre GL JS:                *)
(*   - the IndexedDB tables `files` and `styles` (db.js),                   *)
(*   - OfflinePlugin.downloadMap, one atomic step per `await`,              *)
(*   - the offline-pmtiles:// protocol handler (registerProtocol),          *)
(*   - loadMap / unloadMap / removeMap on the rendering engine.             *)
(* JavaScript runs one synchronous segment at a time, so every action is    *)
(* the code between two consecutive `await`s of one invocation.             *)
(* Strings that the code inspects (names, layer ids) are sequences of       *)
(* one-character strings; blobs are sequences of byte values.               *)
(***************************************************************************)
EXTENDS Integers, Sequences, FiniteSets, TLC

VARIABLES files, styles, dl, req, mapLayers, mapSources, ld, ul, rm

vars == <<files, styles, dl, req, mapLayers, mapSources, ld, ul, rm>>

-----------------------------------------------------------------------------
(* Bounds of the model                                                      *)

\* Range requests the server answers with a short chunk before it sends the rest.
MaxChunks == 2
\* The largest offset and the largest length the archive reader asks for.
MaxOffset == 2
MaxLength == 2

-----------------------------------------------------------------------------
(* Strings                                                                  *)

NameA == <<"a">>
NameAB == <<"a", "-", "b">>
Dash == <<"-">>

StartsWith(s, p) == Len(s) >= Len(p) /\ SubSeq(s, 1, Len(p)) = p

-----------------------------------------------------------------------------
(* OFFLINE_STATUS                                                           *)

START == "START"
PROGRESS == "PROGRESS"
COMPLETE == "COMPLETE"
ERROR == "ERROR"
ERROR_QUOTA == "ERROR_QUOTA"

-----------------------------------------------------------------------------
(* JavaScript values that the code tests for truthiness                     *)

Undefined == [t |-> "undefined", hasLayers |-> FALSE, layers |-> <<>>]
Null == [t |-> "null", hasLayers |-> FALSE, layers |-> <<>>]
Truthy(v) == v.t \notin {"undefined", "null"}

\* A style document with a layer list, and one without a `layers` key.
StyleLayer(id, type, hasSource) == [id |-> id, type |-> type, hasSource |-> hasSource]
DocLayers ==
    [t |-> "object", hasLayers |-> TRUE,
     layers |-> << StyleLayer(<<"b", "g">>, "background", FALSE),
                   StyleLayer(<<"w">>, "fill", TRUE) >>]
DocNoLayers == [t |-> "object", hasLayers |-> FALSE, layers |-> <<>>]

-----------------------------------------------------------------------------
(* db.js: two tables keyed by name.  A table is a function whose domain is  *)
(* the set of keys present.                                                 *)

\* A put that keeps the record a key already has.
TablePutKeep(table, name, value) ==
    IF name \in DOMAIN table THEN table
    ELSE [n \in DOMAIN table \cup {name} |-> IF n = name THEN value ELSE table[n]]

\* table.put(record): the record replaces the one with the same key.
TablePut(table, name, value) ==
    [n \in DOMAIN table \cup {name} |-> IF n = name THEN value ELSE table[n]]

TableDelete(table, name) ==
    [n \in DOMAIN table \ {name} |-> table[n]]

\* getMapFile: record ? record.blob : null
HasFile(name) == name \in DOMAIN files
\* getMapStyle: record ? record.style : null
GetMapStyle(name) == IF name \in DOMAIN styles THEN styles[name] ELSE Null

EmptyTable == [n \in {} |-> <<>>]

-----------------------------------------------------------------------------
(* The remote servers.  A URL names a server; what a server answers is the  *)
(* environment's choice among the responses its kind can produce.           *)

UrlEmpty == ""
UrlFull == "full200"          \* answers 200 with the whole file
UrlRange == "range206"        \* answers 206 + Content-Range, honours Range
UrlRangeIgnored == "range206then200"  \* first 206 + Content-Range, then ignores Range (200, whole file)
UrlNoContentRange == "partial206"     \* answers 206 without Content-Range
UrlBadContentRange == "range206star"  \* answers 206 with Content-Range: bytes 0-1/*
UrlOther2xx == "other203"     \* answers 203 with the whole file
UrlMissing == "missing404"    \* answers 404
UrlBig == "big206"            \* like UrlRange, a file of BigSize bytes

BigSize == 2001

SmallSource == <<11, 22, 33>>
BigSource == [i \in 1..BigSize |-> i % 256]

Source(url) == IF url = UrlBig THEN BigSource ELSE SmallSource

RangeKind(url) == url \in {UrlRange, UrlBig}

\* The chunk lengths a range server may answer with when `remaining` bytes
\* are left and `sent` chunks were already sent: after MaxChunks short
\* chunks it sends the rest.
ChunkLens(remaining, sent) ==
    IF sent >= MaxChunks THEN {remaining}
    ELSE {0, 1, 2, remaining - 1, remaining} \cap (0..remaining)

NetFail == [kind |-> "netfail", status |-> 0, hasCR |-> FALSE, crNaN |-> FALSE,
            crTotal |-> 0, body |-> <<>>, bodyOk |-> FALSE]
Http(status, hasCR, crNaN, crTotal, body, bodyOk) ==
    [kind |-> "http", status |-> status, hasCR |-> hasCR, crNaN |-> crNaN,
     crTotal |-> crTotal, body |-> body, bodyOk |-> bodyOk]

Prefix(seq, k) == SubSeq(seq, 1, k)
\* The bytes [start, start + k) of seq (start counts from 0, as in Range: bytes=start-).
Slice(seq, start, k) == SubSeq(seq, start + 1, start + k)

\* Responses to fetch(url) (no Range header).
FirstResponses(url) ==
    LET src == Source(url) IN
    {NetFail, Http(500, FALSE, FALSE, 0, <<>>, TRUE)} \cup
    (IF url = UrlFull
       THEN {Http(200, FALSE, FALSE, 0, src, ok) : ok \in BOOLEAN}
     ELSE IF RangeKind(url) \/ url = UrlRangeIgnored
       THEN {Http(206, TRUE, FALSE, Len(src), Prefix(src, k), TRUE) :
                k \in ChunkLens(Len(src), 0)}
            \cup {Http(206, TRUE, FALSE, Len(src), <<>>, FALSE)}
     ELSE IF url = UrlNoContentRange
       THEN {Http(206, FALSE, FALSE, 0, Prefix(src, k), TRUE) : k \in 0..Len(src)}
     ELSE IF url = UrlBadContentRange
       THEN {Http(206, TRUE, TRUE, 0, Prefix(src, 2), TRUE)}
     ELSE IF url = UrlOther2xx
       THEN {Http(203, FALSE, FALSE, 0, src, TRUE)}
     ELSE {Http(404, FALSE, FALSE, 0, <<>>, TRUE)})

\* Responses to fetch(url, {headers: {Range: `bytes=${start}-`}}) when
\* `sent` chunks were already received.
RangeResponses(url, start, sent) ==
    LET src == Source(url) IN
    {NetFail, Http(503, FALSE, FALSE, 0, <<>>, TRUE)} \cup
    (IF RangeKind(url)
       THEN {Http(206, TRUE, FALSE, Len(src), Slice(src, start, k), TRUE) :
                k \in ChunkLens(Len(src) - start, sent)}
            \cup {Http(206, TRUE, FALSE, Len(src), <<>>, FALSE)}
     ELSE {Http(200, FALSE, FALSE, 0, src, TRUE)})

\* A response.ok that is true for every status.
OkAlways(status) == TRUE

\* response.ok
Ok(status) == status >= 200 /\ status <= 299

-----------------------------------------------------------------------------
(* Style sources (the styleSource argument of downloadMap)                  *)

Space == " "
TextBlank == <<Space, Space>>
TextJsonLayers == <<"{", "L", "}">>     \* JSON text of DocLayers
TextJsonEmpty == <<"{", "}">>           \* JSON text of DocNoLayers
TextJsonNull == <<"n", "u", "l", "l">>  \* JSON text of null
TextUrl == <<"h", ":", "s">>            \* a URL: not JSON

RECURSIVE TrimLeft(_)
TrimLeft(s) == IF s # <<>> /\ Head(s) = Space THEN TrimLeft(Tail(s)) ELSE s
RECURSIVE TrimRight(_)
TrimRight(s) ==
    IF s # <<>> /\ s[Len(s)] = Space THEN TrimRight(SubSeq(s, 1, Len(s) - 1)) ELSE s
\* String.prototype.trim
Trim(s) == TrimRight(TrimLeft(s))

\* JSON.parse: the value, or a SyntaxError.
JsonParse(text) ==
    IF text = TextJsonLayers THEN [ok |-> TRUE, value |-> DocLayers]
    ELSE IF text = TextJsonEmpty THEN [ok |-> TRUE, value |-> DocNoLayers]
    ELSE IF text = TextJsonNull THEN [ok |-> TRUE, value |-> Null]
    ELSE [ok |-> FALSE, value |-> Undefined]

StyleArg(type, text, doc) == [type |-> type, text |-> text, doc |-> doc]
StyleNone == StyleArg("undefined", <<>>, Undefined)
StyleString(text) == StyleArg("string", text, Undefined)
StyleObject(doc) == StyleArg("object", <<>>, doc)

\* if (styleSource)
StyleArgTruthy(s) ==
    \/ s.type = "object" /\ Truthy(s.doc)
    \/ s.type = "string" /\ s.text # <<>>

\* Responses to fetch(styleSource): the body is parsed by styleResp.json().
StyleResponses ==
    { [kind |-> "netfail", ok |-> FALSE, text |-> <<>>],
      [kind |-> "http", ok |-> FALSE, text |-> <<>>],
      [kind |-> "http", ok |-> TRUE, text |-> TextJsonLayers],
      [kind |-> "http", ok |-> TRUE, text |-> TextJsonNull],
      [kind |-> "http", ok |-> TRUE, text |-> TextUrl] }

\* Outcomes of a put into IndexedDB: done, or an error with this name.
PutOutcomes == {"ok", "QuotaExceededError", "DataError"}

-----------------------------------------------------------------------------
(* OfflinePlugin.downloadMap                                                *)

NoProgress == [kind |-> "none", tenths |-> 0]

\* (receivedLength / totalSize * 100).toFixed(1): the percentage rounded to
\* one decimal (half up), kept in tenths of a percent.
ToFixed1(receivedLength, totalSize) ==
    [kind |-> "num",
     tenths |-> (2000 * receivedLength + totalSize) \div (2 * totalSize)]

\* report(code, message, progress): handed to onProgress when it was
\* supplied, written to the console otherwise; `reports` keeps the calls.
\* In the same way `puts` keeps the saveMapFile / saveMapStyle calls made,
\* `written` those that succeeded and `errStatus` the status an error
\* message carries. The histories stop growing MaxChunks chunks after the
\* first; `spin` is the parity of the empty chunks received after that.
Report(rec, code, progress) ==
    [rec EXCEPT !.reports = Append(@, [code |-> code, progress |-> progress])]

IdleDownload ==
    [pc |-> "idle", url |-> UrlEmpty, name |-> <<>>, hasCb |-> FALSE,
     styleSource |-> StyleNone, chunks |-> <<>>, receivedLength |-> 0,
     totalSize |-> 0, rangeStart |-> 0, blob |-> <<>>, styleJson |-> Undefined,
     reports |-> <<>>, fetches |-> <<>>, responses |-> <<>>,
     outcome |-> "none", errName |-> "", errStatus |-> 0,
     puts |-> <<>>, written |-> {}, spin |-> 0]

\* fetch(url) or fetch(url, {headers: {Range: `bytes=${start}-`}}) is called;
\* `fetches` keeps the requests sent.
Fetch(rec, hasRange, start) ==
    [rec EXCEPT !.fetches = Append(@, [hasRange |-> hasRange, start |-> start])]

\* A response is received; `responses` keeps the responses, in order.
Receive(rec, resp) == [rec EXCEPT !.responses = Append(@, resp)]

\* new Blob(chunks): the chunks' bytes, in the order of the array.
RECURSIVE NewBlob(_)
NewBlob(chunks) ==
    IF chunks = <<>> THEN <<>> ELSE Head(chunks) \o NewBlob(Tail(chunks))

\* A catch block that reports every error with the generic code.
ErrorCodeGeneric(errName) == ERROR

\* The status code the catch block reports for an error of this name.
ErrorCode(errName) ==
    IF errName = "QuotaExceededError" THEN ERROR_QUOTA ELSE ERROR

\* A catch block that reports and does not rethrow.
CatchSwallowed == "resolved"

\* How the promise of downloadMap settles when the catch block is left.
CatchOutcome == "rejected"

\* catch (e) { report(...); throw e; }
Fail(rec, errName) ==
    [Report(rec, ErrorCode(errName), NoProgress) EXCEPT
        !.pc = "done", !.outcome = CatchOutcome, !.errName = errName]

\* A return that reports nothing.
CompleteSilent(rec) == [rec EXCEPT !.pc = "done", !.outcome = "resolved"]

\* report(COMPLETE) and return.
Complete(rec) ==
    [Report(rec, COMPLETE, NoProgress) EXCEPT !.pc = "done", !.outcome = "resolved"]

\* report(PROGRESS, "Saving ..."); await saveMapFile(name, blob)
StartSave(rec) ==
    [Report(rec, PROGRESS, NoProgress) EXCEPT
        !.pc = "saveFile", !.puts = Append(@, "file")]

\* The body read after it was already consumed: an empty blob.
ReadWholeBodyConsumed(rec, resp) ==
    IF ~resp.bodyOk THEN Fail(rec, "TypeError")
    ELSE StartSave([rec EXCEPT !.blob = <<>>])

\* blob = await response.blob(), for a response read as a whole.
ReadWholeBody(rec, resp) ==
    IF ~resp.bodyOk THEN Fail(rec, "TypeError")
    ELSE StartSave([rec EXCEPT !.blob = resp.body])

\* A range request that asks for the file from its first byte again.
NextStartFromZero(rec) == 0

\* const nextStart = receivedLength
NextStart(rec) == rec.receivedLength

\* while (receivedLength < totalSize)
LoopContinues(rec) == rec.receivedLength < rec.totalSize

\* The progress report after a chunk, then the loop test: the next range
\* request, or the assembly of the blob.
AfterChunk(rec) ==
    LET r1 == Report(rec, PROGRESS, ToFixed1(rec.receivedLength, rec.totalSize)) IN
    IF LoopContinues(r1)
      THEN [Fetch(r1, TRUE, NextStart(r1)) EXCEPT
               !.pc = "range", !.rangeStart = NextStart(r1)]
      ELSE StartSave([Report(r1, PROGRESS, NoProgress) EXCEPT
                         !.blob = NewBlob(r1.chunks)])

\* Whether the 206 branch reads the body in chunks.
IsChunked(resp) == resp.status = 206 /\ resp.hasCR

\* The code after `await fetch(url)`, up to the next await that is not a
\* body read.
OnFirstResponse(rec, resp) ==
    IF resp.kind = "netfail" THEN Fail(rec, "TypeError")
    ELSE IF ~Ok(resp.status)
      THEN [Fail(rec, "Error") EXCEPT !.errStatus = resp.status]
    ELSE IF resp.status = 200
      THEN ReadWholeBody(Report(rec, PROGRESS, NoProgress), resp)
    ELSE IF IsChunked(resp)
      THEN IF resp.crNaN THEN Fail(rec, "Error")
           ELSE LET r1 == Report([rec EXCEPT !.totalSize = resp.crTotal],
                                 PROGRESS, NoProgress) IN
                IF ~resp.bodyOk THEN Fail(r1, "TypeError")
                ELSE AfterChunk([r1 EXCEPT !.chunks = <<resp.body>>,
                                           !.receivedLength = Len(resp.body)])
    ELSE ReadWholeBody(rec, resp)

\* The loop body after `await fetch(url, { headers })`.
OnChunkResponse(rec, resp) ==
    IF resp.kind = "netfail" THEN Fail(rec, "TypeError")
    ELSE IF ~Ok(resp.status)
      THEN [Fail(rec, "Error") EXCEPT !.errStatus = resp.status]
    ELSE IF ~resp.bodyOk THEN Fail(rec, "TypeError")
    ELSE AfterChunk([rec EXCEPT !.chunks = Append(@, resp.body),
                                !.receivedLength = @ + Len(resp.body)])

\* if (styleJson) { await saveMapStyle(name, styleJson); ... }
SaveStyleOrComplete(rec) ==
    IF Truthy(rec.styleJson)
      THEN [rec EXCEPT !.pc = "saveStyle", !.puts = Append(@, "style")]
      ELSE Complete(rec)

\* "2. Handle Style (Optional)", up to its first await.
HandleStyle(rec) ==
    LET s == rec.styleSource IN
    IF ~StyleArgTruthy(s) THEN Complete(rec)
    ELSE LET r1 == Report(rec, PROGRESS, NoProgress) IN
         IF s.type = "string" /\ Trim(s.text) # <<>>
           THEN IF JsonParse(s.text).ok
                  THEN SaveStyleOrComplete(
                         Report([r1 EXCEPT !.styleJson = JsonParse(s.text).value],
                                PROGRESS, NoProgress))
                  ELSE [r1 EXCEPT !.pc = "styleFetch"]
         ELSE IF s.type = "object"
           THEN SaveStyleOrComplete([r1 EXCEPT !.styleJson = s.doc])
         ELSE SaveStyleOrComplete(r1)

\* The code after `await fetch(styleSource)`.
OnStyleResponse(rec, resp) ==
    IF resp.kind = "netfail" THEN Fail(rec, "TypeError")
    ELSE IF ~resp.ok THEN Fail(rec, "Error")
    ELSE IF ~JsonParse(resp.text).ok THEN Fail(rec, "SyntaxError")
    ELSE SaveStyleOrComplete([rec EXCEPT !.styleJson = JsonParse(resp.text).value])

\* downloadMap(url, name, onProgress, styleSource), up to `await fetch(url)`.
DownloadStart(d, url, name, hasCb, styleSource) ==
    /\ dl[d].pc = "idle"
    /\ LET rec == [IdleDownload EXCEPT !.url = url, !.name = name,
                       !.hasCb = hasCb, !.styleSource = styleSource] IN
       dl' = [dl EXCEPT ![d] =
                IF url = UrlEmpty
                  THEN [Report(rec, ERROR, NoProgress) EXCEPT
                           !.pc = "done", !.outcome = "resolved"]
                  ELSE [Fetch(Report(rec, START, NoProgress), FALSE, 0) EXCEPT
                           !.pc = "fetch"]]
    /\ UNCHANGED <<files, styles, req, mapLayers, mapSources, ld, ul, rm>>

\* The first response arrives.
DownloadFirstResponse(d) ==
    /\ dl[d].pc = "fetch"
    /\ \E resp \in FirstResponses(dl[d].url) :
          dl' = [dl EXCEPT ![d] = OnFirstResponse(Receive(dl[d], resp), resp)]
    /\ UNCHANGED <<files, styles, req, mapLayers, mapSources, ld, ul, rm>>

\* The response to a range request arrives.
DownloadChunkResponse(d) ==
    /\ dl[d].pc = "range"
    /\ \E resp \in RangeResponses(dl[d].url, dl[d].rangeStart, Len(dl[d].chunks)) :
          dl' = [dl EXCEPT ![d] = OnChunkResponse(Receive(dl[d], resp), resp)]
    /\ UNCHANGED <<files, styles, req, mapLayers, mapSources, ld, ul, rm>>

\* The response to a range request arrives with status 206 and an empty
\* body, from a server that has stopped sending bytes: an empty chunk is
\* pushed, receivedLength += 0, the same progress is reported and the loop
\* asks for the same range again.
DownloadEmptyChunk(d) ==
    /\ dl[d].pc = "range"
    /\ RangeKind(dl[d].url)
    /\ Len(dl[d].chunks) >= MaxChunks
    /\ LoopContinues(dl[d])
    /\ dl' = [dl EXCEPT ![d].spin = 1 - @]
    /\ UNCHANGED <<files, styles, req, mapLayers, mapSources, ld, ul, rm>>

\* Bookkeeping for removeMap: a put for `name` succeeded after a removeMap
\* for it was called.
PutSeen(name) ==
    [m \in DOMAIN rm |->
        IF rm[m].pc # "idle" /\ rm[m].name = name
          THEN [rm[m] EXCEPT !.disturbed = TRUE] ELSE rm[m]]

\* saveMapFile(name, blob) settles: db.files.put wrote the record, or threw.
DownloadSaveFile(d) ==
    /\ dl[d].pc = "saveFile"
    /\ \E out \in PutOutcomes :
          IF out = "ok"
            THEN /\ files' = TablePut(files, dl[d].name, dl[d].blob)
                 /\ dl' = [dl EXCEPT ![d] =
                             HandleStyle([dl[d] EXCEPT !.written = @ \cup {"file"}])]
                 /\ rm' = PutSeen(dl[d].name)
            ELSE /\ files' = files
                 /\ dl' = [dl EXCEPT ![d] = Fail(dl[d], out)]
                 /\ rm' = rm
    /\ UNCHANGED <<styles, req, mapLayers, mapSources, ld, ul>>

\* The response to fetch(styleSource) arrives.
DownloadStyleResponse(d) ==
    /\ dl[d].pc = "styleFetch"
    /\ \E resp \in StyleResponses :
          dl' = [dl EXCEPT ![d] = OnStyleResponse(dl[d], resp)]
    /\ UNCHANGED <<files, styles, req, mapLayers, mapSources, ld, ul, rm>>

\* saveMapStyle(name, styleJson) settles: db.styles.put wrote, or threw.
DownloadSaveStyle(d) ==
    /\ dl[d].pc = "saveStyle"
    /\ \E out \in PutOutcomes :
          IF out = "ok"
            THEN /\ styles' = TablePut(styles, dl[d].name, dl[d].styleJson)
                 /\ dl' = [dl EXCEPT ![d] =
                             Complete(Report([dl[d] EXCEPT !.written = @ \cup {"style"}],
                                             PROGRESS, NoProgress))]
                 /\ rm' = PutSeen(dl[d].name)
            ELSE /\ styles' = styles
                 /\ dl' = [dl EXCEPT ![d] = Fail(dl[d], out)]
                 /\ rm' = rm
    /\ UNCHANGED <<files, req, mapLayers, mapSources, ld, ul>>

\* The promise of downloadMap has settled and the caller has seen it.
DownloadSettled(d) ==
    /\ dl[d].pc = "done"
    /\ dl' = [dl EXCEPT ![d] = IdleDownload]
    /\ UNCHANGED <<files, styles, req, mapLayers, mapSources, ld, ul, rm>>

-----------------------------------------------------------------------------
(* The offline-pmtiles:// protocol handler (registerProtocol)               *)

Slash == "/"
Comma == ","

\* String.prototype.split(sep), for a one-character separator: `cur` is the
\* component being read.
RECURSIVE SplitFrom(_, _, _)
SplitFrom(s, sep, cur) ==
    IF s = <<>> THEN <<cur>>
    ELSE IF Head(s) = sep THEN <<cur>> \o SplitFrom(Tail(s), sep, <<>>)
    ELSE SplitFrom(Tail(s), sep, Append(cur, Head(s)))
Split(s, sep) == SplitFrom(s, sep, <<>>)

DigitValue(c) ==
    CASE c = "0" -> 0 [] c = "1" -> 1 [] c = "2" -> 2 [] c = "3" -> 3
      [] c = "4" -> 4 [] c = "5" -> 5 [] c = "6" -> 6 [] c = "7" -> 7
      [] c = "8" -> 8 [] c = "9" -> 9 [] OTHER -> -1

NaN == [nan |-> TRUE, n |-> 0]
Num(n) == [nan |-> FALSE, n |-> n]

\* The value of the longest prefix of decimal digits of s, read after acc.
RECURSIVE DigitsFrom(_, _)
DigitsFrom(s, acc) ==
    IF s = <<>> \/ DigitValue(Head(s)) < 0 THEN acc
    ELSE DigitsFrom(Tail(s), 10 * acc + DigitValue(Head(s)))

\* parseInt(s) for unsigned decimal text: NaN unless s starts with a digit.
ParseInt(s) ==
    IF s = <<>> \/ DigitValue(Head(s)) < 0 THEN NaN ELSE Num(DigitsFrom(s, 0))

\* Number(s) for unsigned decimal text: 0 for the empty string, NaN when
\* a character is not a digit.
ToNumber(s) ==
    IF \E i \in 1..Len(s) : DigitValue(s[i]) < 0 THEN NaN ELSE Num(DigitsFrom(s, 0))

\* What the archive reader (the pmtiles library) yields for getHeader().
Header(minZoom, maxZoom, minLon, minLat, maxLon, maxLat, tileType) ==
    [minZoom |-> minZoom, maxZoom |-> maxZoom, minLon |-> minLon,
     minLat |-> minLat, maxLon |-> maxLon, maxLat |-> maxLat,
     tileType |-> tileType]
NoHeader == Header(0, 0, 0, 0, 0, 0, 0)

\* What the archive reader yields for getMetadata(): null, or an object
\* with optional bounds (text), minzoom / maxzoom (numbers) and
\* vector_layers (the ids).
Metadata(isNull, hasBounds, bounds, hasZoom, minzoom, maxzoom, vectorLayers) ==
    [isNull |-> isNull, hasBounds |-> hasBounds, bounds |-> bounds,
     hasZoom |-> hasZoom, minzoom |-> minzoom, maxzoom |-> maxzoom,
     vectorLayers |-> vectorLayers]
NullMetadata == Metadata(TRUE, FALSE, <<>>, FALSE, 0, 0, <<>>)

\* BlobSource.getBytes(offset, length): blob.slice(offset, offset + length)
\* clamps both ends to the size of the blob; arrayBuffer() loads the slice.
GetBytes(blob, offset, length) ==
    LET size == Len(blob)
        start == IF offset < size THEN offset ELSE size
        end == IF offset + length < size THEN offset + length ELSE size IN
    SubSeq(blob, start + 1, end)

\* The reader's answers to getZxy: a tile, or nothing (undefined).
NoResponse == [answered |-> FALSE, found |-> FALSE, bytes |-> <<>>]
TileResponses ==
    { [answered |-> TRUE, found |-> TRUE, bytes |-> <<7>>],
      [answered |-> TRUE, found |-> FALSE, bytes |-> <<>>] }

NoData ==
    [kind |-> "none", name |-> <<>>, minzoom |-> 0, maxzoom |-> 0,
     bounds |-> <<>>, bytes |-> <<>>]

IdleRequest ==
    [pc |-> "idle", path |-> <<>>, parts |-> <<>>, name |-> <<>>,
     hasCtl |-> FALSE, aborted |-> FALSE, found |-> FALSE, blob |-> <<>>,
     header |-> NoHeader, metadata |-> NullMetadata, response |-> NoResponse,
     z |-> NaN, x |-> NaN, y |-> NaN, reads |-> 0, lookups |-> 0,
     range |-> <<0, 0>>, buffer |-> <<>>,
     outcome |-> "none", error |-> "", data |-> NoData, consoleErrors |-> 0]

\* A handler that never looks at the signal.
SignalAbortedNever(rec) == FALSE

\* One abort signal shared by all the requests.
SignalAbortedShared(rec) == \E r \in DOMAIN req : req[r].hasCtl /\ req[r].aborted

\* abortController && abortController.signal.aborted
SignalAborted(rec) == rec.hasCtl /\ rec.aborted

\* catch (e) { if (e.message !== 'Aborted') console.error(e); throw e; }
Throw(rec, message) ==
    [rec EXCEPT !.pc = "done", !.outcome = "rejected", !.error = message,
                !.consoleErrors = IF message # "Aborted" THEN @ + 1 ELSE @]

\* return { data }
Return(rec, data) ==
    [rec EXCEPT !.pc = "done", !.outcome = "resolved", !.data = data]

\* header.minZoom || 0, header.maxZoom || 14
OrDefault(n, default) == IF n = 0 THEN default ELSE n

\* The "Logic to determine bounds" of the metadata branch.
BoundsFallback(header, metadata) ==
    /\ header.minLon = 0
    /\ header.maxLon = 0
    /\ ~metadata.isNull
    /\ metadata.hasBounds /\ metadata.bounds # <<>>

MetadataBounds(metadata) ==
    LET b == Split(metadata.bounds, Comma) IN
    [i \in 1..Len(b) |-> ToNumber(b[i])]

HeaderBounds(header) ==
    << Num(header.minLon), Num(header.minLat), Num(header.maxLon), Num(header.maxLat) >>

\* metadata && metadata.minzoom (a number: 0 is falsy)
ZoomOverride(header, metadata) ==
    /\ ~BoundsFallback(header, metadata)
    /\ ~metadata.isNull
    /\ metadata.hasZoom /\ metadata.minzoom # 0

\* The TileJSON the metadata branch returns.
Descriptor(name, header, metadata) ==
    [kind |-> "tilejson", name |-> name,
     minzoom |-> IF ZoomOverride(header, metadata) THEN metadata.minzoom
                 ELSE OrDefault(header.minZoom, 0),
     maxzoom |-> IF ZoomOverride(header, metadata) THEN metadata.maxzoom
                 ELSE OrDefault(header.maxZoom, 14),
     bounds |-> IF BoundsFallback(header, metadata)
                     /\ Len(MetadataBounds(metadata)) = 4
                  THEN MetadataBounds(metadata) ELSE HeaderBounds(header),
     bytes |-> <<>>]

\* The value returned when the archive reader has no tile: { data: null }.
AbsentTile == [NoData EXCEPT !.kind = "null"]

\* A handler that returns the reader's answer unchecked: undefined when
\* there is no tile.
TileResultUnchecked(response) ==
    IF response.found THEN [NoData EXCEPT !.kind = "tile", !.bytes = response.bytes]
    ELSE [NoData EXCEPT !.kind = "undefined"]

\* The value returned for the reader's answer to getZxy.
TileResult(response) ==
    IF response.found THEN [NoData EXCEPT !.kind = "tile", !.bytes = response.bytes]
    ELSE AbsentTile

\* The handler is called: the synchronous part up to `await getMapFile(name)`.
RequestStart(r, path, hasCtl, aborted) ==
    /\ req[r].pc = "idle"
    /\ hasCtl \/ ~aborted
    /\ LET parts == Split(path, Slash)
           rec == [IdleRequest EXCEPT !.path = path, !.parts = parts,
                       !.name = parts[1], !.hasCtl = hasCtl, !.aborted = aborted] IN
       req' = [req EXCEPT ![r] =
                 IF SignalAborted(rec) THEN Throw(rec, "Aborted")
                 ELSE [rec EXCEPT !.pc = "getFile", !.reads = 1]]
    /\ UNCHANGED <<files, styles, dl, mapLayers, mapSources, ld, ul, rm>>

\* The same code without `if (!blob) throw`.
OnMapFileUnchecked(rec, hasBlob, blob) ==
    IF SignalAborted(rec) THEN Throw(rec, "Aborted")
    ELSE [rec EXCEPT !.found = TRUE, !.blob = blob, !.pc = "header", !.lookups = 1]

\* The code after `await getMapFile(name)` for the blob read (hasBlob: a
\* record was found), up to the next await.
OnMapFile(rec, hasBlob, blob) ==
    IF ~hasBlob THEN Throw(rec, "NotFound")
    ELSE IF SignalAborted(rec) THEN Throw(rec, "Aborted")
    ELSE LET r1 == [rec EXCEPT !.found = TRUE, !.blob = blob] IN
         IF Len(rec.parts) = 1 THEN [r1 EXCEPT !.pc = "header", !.lookups = 1]
         ELSE IF Len(rec.parts) = 4
           THEN [r1 EXCEPT !.pc = "tile", !.lookups = 1,
                           !.z = ParseInt(rec.parts[2]),
                           !.x = ParseInt(rec.parts[3]),
                           !.y = ParseInt(rec.parts[4])]
         ELSE [r1 EXCEPT !.pc = "done", !.outcome = "resolved",
                         !.data = [NoData EXCEPT !.kind = "undefined"]]

\* getMapFile(name) settles: the record was read, or db.files.get threw.
RequestGetFile(r) ==
    /\ req[r].pc = "getFile"
    /\ \E readOk \in BOOLEAN :
          req' = [req EXCEPT ![r] =
                    IF ~readOk THEN Throw(req[r], "StorageError")
                    ELSE OnMapFile(req[r], HasFile(req[r].name),
                                   IF HasFile(req[r].name) THEN files[req[r].name]
                                   ELSE <<>>)]
    /\ UNCHANGED <<files, styles, dl, mapLayers, mapSources, ld, ul, rm>>

\* p.getHeader() settles with one of `headers`, or throws.
RequestHeader(r, headers) ==
    /\ req[r].pc = "header"
    /\ \/ req' = [req EXCEPT ![r] = Throw(req[r], "ReaderError")]
       \/ \E h \in headers :
             req' = [req EXCEPT ![r] =
                       [req[r] EXCEPT !.pc = "metadata", !.header = h, !.lookups = 2]]
    /\ UNCHANGED <<files, styles, dl, mapLayers, mapSources, ld, ul, rm>>

\* p.getMetadata() settles with one of `metadatas`, or throws.
RequestMetadata(r, metadatas) ==
    /\ req[r].pc = "metadata"
    /\ \/ req' = [req EXCEPT ![r] = Throw(req[r], "ReaderError")]
       \/ \E m \in metadatas :
             req' = [req EXCEPT ![r] =
                       LET rec == [req[r] EXCEPT !.metadata = m] IN
                       IF SignalAborted(rec) THEN Throw(rec, "Aborted")
                       ELSE Return(rec, Descriptor(rec.name, rec.header, m))]
    /\ UNCHANGED <<files, styles, dl, mapLayers, mapSources, ld, ul, rm>>

\* p.getZxy(z, x, y) settles with a tile or with nothing, or throws. The
\* reader has read one of `ranges` (<<offset, length>>) of the archive
\* through BlobSource.getBytes; `range` and `buffer` keep that read.
RequestTile(r, ranges) ==
    /\ req[r].pc = "tile"
    /\ \/ req' = [req EXCEPT ![r] = Throw(req[r], "ReaderError")]
       \/ \E response \in TileResponses, rg \in ranges :
             req' = [req EXCEPT ![r] =
                       LET rec == [req[r] EXCEPT
                                      !.response = response, !.range = rg,
                                      !.buffer = GetBytes(req[r].blob, rg[1], rg[2])] IN
                       IF SignalAborted(rec) THEN Throw(rec, "Aborted")
                       ELSE Return(rec, TileResult(response))]
    /\ UNCHANGED <<files, styles, dl, mapLayers, mapSources, ld, ul, rm>>

\* The caller aborts the request's AbortController while it is in flight.
RequestAbort(r) ==
    /\ req[r].pc \notin {"idle", "done"}
    /\ req[r].hasCtl /\ ~req[r].aborted
    /\ req' = [req EXCEPT ![r].aborted = TRUE]
    /\ UNCHANGED <<files, styles, dl, mapLayers, mapSources, ld, ul, rm>>

\* The handler's promise has settled and the engine has seen it.
RequestSettled(r) ==
    /\ req[r].pc = "done"
    /\ req' = [req EXCEPT ![r] = IdleRequest]
    /\ UNCHANGED <<files, styles, dl, mapLayers, mapSources, ld, ul, rm>>

-----------------------------------------------------------------------------
(* The rendering engine: the layers and sources of the map's style          *)

\* A layer of the style; `source` is <<>> when the layer names none.  `owner`
\* is the name whose loadMap added the layer: bookkeeping that no code reads.
Layer(id, type, source, owner) ==
    [id |-> id, type |-> type, source |-> source, owner |-> owner]

\* `${name}-source`
SourceId(name) == name \o Dash \o <<"source">>
\* `${name}-${suffix}`
LayerId(name, suffix) == name \o Dash \o suffix

\* map.getLayer(id)
GetLayer(layers, id) == \E l \in layers : l.id = id

\* map.addLayer(layer): the engine adds nothing (and throws nothing) when the
\* id is taken, or when a layer other than a background names no source of
\* the style.
AddLayer(layers, sources, layer) ==
    IF GetLayer(layers, layer.id) THEN layers
    ELSE IF layer.type # "background" /\ layer.source \notin sources THEN layers
    ELSE layers \cup {layer}

RECURSIVE AddLayers(_, _, _)
AddLayers(layers, sources, seq) ==
    IF seq = <<>> THEN layers
    ELSE AddLayers(AddLayer(layers, sources, Head(seq)), sources, Tail(seq))

\* _cleanup, the layers: every layer whose id starts with `${name}-` goes.
CleanupLayers(layers, name) ==
    {l \in layers : ~StartsWith(l.id, name \o Dash)}

\* _cleanup, the source: removed if present; the engine keeps a source that
\* a remaining layer uses.
CleanupSources(layers, sources, name) ==
    IF /\ SourceId(name) \in sources
       /\ ~\E l \in CleanupLayers(layers, name) : l.source = SourceId(name)
      THEN sources \ {SourceId(name)}
      ELSE sources

\* _addRasterLayer
RasterLayer(name) == Layer(LayerId(name, <<"raster">>), "raster", SourceId(name), name)

\* The source a layer of a stored style names before it is rewritten.
StyleSource == <<"s">>

\* _addCustomStyleLayers: the layer added for one layer of the stored style.
CustomLayer(layer, name) ==
    IF layer.type = "background"
      THEN Layer(LayerId(name, layer.id), layer.type,
                 IF layer.hasSource THEN StyleSource ELSE <<>>, name)
    ELSE IF layer.hasSource
      THEN Layer(LayerId(name, layer.id), layer.type, SourceId(name), name)
    ELSE Layer(layer.id, layer.type, <<>>, name)

CustomLayers(style, name) ==
    [i \in 1..Len(style.layers) |-> CustomLayer(style.layers[i], name)]

PolyIds == {"earth", "landuse", "water", "buildings", "land"}
LineIds == {"roads", "transit", "boundaries", "transportation"}

\* vectorLayers.find(l => ids.includes(l.id)): the index, 0 when none.
Find(vectorLayers, ids) ==
    LET hits == {i \in 1..Len(vectorLayers) : vectorLayers[i] \in ids} IN
    IF hits = {} THEN 0 ELSE CHOOSE i \in hits : \A j \in hits : i <= j

\* (metadata && metadata.vector_layers) ? metadata.vector_layers : []
VectorLayersOf(metadata) == IF metadata.isNull THEN <<>> ELSE metadata.vectorLayers

\* _addVectorLayers: the layers it asks the engine to add, in order.
GeneratedLayers(metadata, name) ==
    LET vl == VectorLayersOf(metadata)
        poly == Find(vl, PolyIds)
        line == Find(vl, LineIds)
        src == SourceId(name)
        debug == SelectSeq(vl, LAMBDA id :
                    /\ poly = 0 \/ id # vl[poly]
                    /\ line = 0 \/ id # vl[line])
    IN  << Layer(<<"background">>, "background", <<>>, name) >> \o
        (IF vl = <<>>
           THEN << Layer(LayerId(name, <<"fallback", "-", "fill">>), "fill", src, name) >>
           ELSE (IF poly # 0
                   THEN << Layer(LayerId(name, <<"fill">>), "fill", src, name) >>
                   ELSE <<>>) \o
                (IF line # 0
                   THEN << Layer(LayerId(name, <<"line">>), "line", src, name) >>
                   ELSE <<>>) \o
                [i \in 1..Len(debug) |->
                   Layer(LayerId(name, <<"debug", "-", debug[i]>>), "line", src, name)])

-----------------------------------------------------------------------------
(* loadMap                                                                  *)

IdleLoad ==
    [pc |-> "idle", name |-> <<>>, hasCb |-> FALSE, header |-> NoHeader,
     metadata |-> NullMetadata, sourceType |-> "", alerts |-> 0,
     reports |-> <<>>, outcome |-> "none", error |-> ""]

\* An exception leaves loadMap: it has no catch block.
LoadThrow(rec, error) ==
    [rec EXCEPT !.pc = "done", !.outcome = "rejected", !.error = error]

\* report(OFFLINE_STATUS.COMPLETE, ...) and the end of loadMap.
LoadComplete(rec) ==
    [rec EXCEPT !.pc = "done", !.outcome = "resolved",
                !.reports = Append(@, COMPLETE)]

\* const isVector = header.tileType === 1
IsVector(header) == header.tileType = 1

\* loadMap(map, name, onProgress), up to `await getMapFile(name)`.
LoadStart(l, name, hasCb) ==
    /\ ld[l].pc = "idle"
    /\ ld' = [ld EXCEPT ![l] =
                [IdleLoad EXCEPT !.pc = "getFile", !.name = name, !.hasCb = hasCb]]
    /\ UNCHANGED <<files, styles, dl, req, mapLayers, mapSources, ul, rm>>

\* getMapFile(name) settles: without a blob loadMap alerts and returns; with
\* one it cleans up the name's layers and asks for the header.
LoadGetFile(l) ==
    /\ ld[l].pc = "getFile"
    /\ \E readOk \in BOOLEAN :
          IF ~readOk
            THEN /\ ld' = [ld EXCEPT ![l] = LoadThrow(ld[l], "StorageError")]
                 /\ UNCHANGED <<mapLayers, mapSources>>
          ELSE IF ~HasFile(ld[l].name)
            THEN /\ ld' = [ld EXCEPT ![l] =
                             [ld[l] EXCEPT !.pc = "done", !.outcome = "resolved",
                                           !.alerts = @ + 1]]
                 /\ UNCHANGED <<mapLayers, mapSources>>
          ELSE /\ mapLayers' = CleanupLayers(mapLayers, ld[l].name)
               /\ mapSources' = CleanupSources(mapLayers, mapSources, ld[l].name)
               /\ ld' = [ld EXCEPT ![l].pc = "header"]
    /\ UNCHANGED <<files, styles, dl, req, ul, rm>>

\* p.getHeader() settles with one of `headers`, or throws.
LoadHeader(l, headers) ==
    /\ ld[l].pc = "header"
    /\ \/ ld' = [ld EXCEPT ![l] = LoadThrow(ld[l], "ReaderError")]
       \/ \E h \in headers :
             ld' = [ld EXCEPT ![l] = [ld[l] EXCEPT !.pc = "metadata", !.header = h]]
    /\ UNCHANGED <<files, styles, dl, req, mapLayers, mapSources, ul, rm>>

\* p.getMetadata() settles with one of `metadatas`, or throws.  The source
\* is added with its type, kept in `sourceType` (the engine throws when the
\* id is taken); a raster archive gets
\* its layer, a vector archive waits for its stored style.
LoadMetadata(l, metadatas) ==
    /\ ld[l].pc = "metadata"
    /\ \/ /\ ld' = [ld EXCEPT ![l] = LoadThrow(ld[l], "ReaderError")]
          /\ UNCHANGED <<mapLayers, mapSources>>
       \/ \E m \in metadatas :
             LET rec == [ld[l] EXCEPT
                            !.metadata = m,
                            !.sourceType = IF IsVector(ld[l].header) THEN "vector"
                                           ELSE "raster"]
                 sources == mapSources \cup {SourceId(rec.name)} IN
             IF SourceId(rec.name) \in mapSources
               THEN /\ ld' = [ld EXCEPT ![l] = LoadThrow(rec, "SourceExists")]
                    /\ UNCHANGED <<mapLayers, mapSources>>
             ELSE IF IsVector(rec.header)
               THEN /\ mapSources' = sources
                    /\ mapLayers' = mapLayers
                    /\ ld' = [ld EXCEPT ![l] = [rec EXCEPT !.pc = "getStyle"]]
             ELSE /\ mapSources' = sources
                  /\ mapLayers' = AddLayer(mapLayers, sources, RasterLayer(rec.name))
                  /\ ld' = [ld EXCEPT ![l] = LoadComplete(rec)]
    /\ UNCHANGED <<files, styles, dl, req, ul, rm>>

\* getMapStyle(name) settles (null when the read fails): the layers of the
\* stored style when it has any, the generated layers otherwise.
LoadStyle(l) ==
    /\ ld[l].pc = "getStyle"
    /\ \E storedStyle \in {GetMapStyle(ld[l].name), Null} :
          mapLayers' =
             AddLayers(mapLayers, mapSources,
                       IF Truthy(storedStyle) /\ storedStyle.hasLayers
                         THEN CustomLayers(storedStyle, ld[l].name)
                         ELSE GeneratedLayers(ld[l].metadata, ld[l].name))
    /\ ld' = [ld EXCEPT ![l] = LoadComplete(ld[l])]
    /\ UNCHANGED <<files, styles, dl, req, mapSources, ul, rm>>

\* The promise of loadMap has settled and the caller has seen it.
LoadSettled(l) ==
    /\ ld[l].pc = "done"
    /\ ld' = [ld EXCEPT ![l] = IdleLoad]
    /\ UNCHANGED <<files, styles, dl, req, mapLayers, mapSources, ul, rm>>

-----------------------------------------------------------------------------
(* unloadMap                                                                *)

IdleUnload == [pc |-> "idle", name |-> <<>>]

\* An unloadMap that also clears the name's records.
UnloadMapClearing(u, name) ==
    /\ ul[u].pc = "idle"
    /\ mapLayers' = CleanupLayers(mapLayers, name)
    /\ mapSources' = CleanupSources(mapLayers, mapSources, name)
    /\ files' = TableDelete(files, name)
    /\ styles' = TableDelete(styles, name)
    /\ ul' = [ul EXCEPT ![u] = [pc |-> "done", name |-> name]]
    /\ UNCHANGED <<dl, req, ld, rm>>

\* unloadMap(map, name): synchronous, one step.
UnloadMap(u, name) ==
    /\ ul[u].pc = "idle"
    /\ mapLayers' = CleanupLayers(mapLayers, name)
    /\ mapSources' = CleanupSources(mapLayers, mapSources, name)
    /\ ul' = [ul EXCEPT ![u] = [pc |-> "done", name |-> name]]
    /\ UNCHANGED <<files, styles, dl, req, ld, rm>>

\* The caller goes on after unloadMap has returned.
UnloadReturned(u) ==
    /\ ul[u].pc = "done"
    /\ ul' = [ul EXCEPT ![u] = IdleUnload]
    /\ UNCHANGED <<files, styles, dl, req, mapLayers, mapSources, ld, rm>>

-----------------------------------------------------------------------------
(* removeMap                                                                *)

\* `disturbed` is bookkeeping: a put for the same name succeeded since this
\* removeMap was called.
IdleRemove ==
    [pc |-> "idle", name |-> <<>>, hasMap |-> FALSE, hasCb |-> FALSE,
     reports |-> <<>>, outcome |-> "none", error |-> "", disturbed |-> FALSE]

\* An exception leaves removeMap: it has no catch block.
RemoveThrow(rec, error) ==
    [rec EXCEPT !.pc = "done", !.outcome = "rejected", !.error = error]

\* A deleteMapStyle that leaves the record in place.
DeleteMapStyleKept(table, name) == table

\* deleteMapStyle(name): db.styles.delete(name)
DeleteMapStyle(table, name) == TableDelete(table, name)

\* deleteMapFile(name): db.files.delete(name)
DeleteMapFile(table, name) == TableDelete(table, name)

\* removeMap(map, name, onProgress), up to `await deleteMapFile(name)`.
RemoveStart(m, name, hasMap, hasCb) ==
    /\ rm[m].pc = "idle"
    /\ mapLayers' = IF hasMap THEN CleanupLayers(mapLayers, name) ELSE mapLayers
    /\ mapSources' = IF hasMap THEN CleanupSources(mapLayers, mapSources, name)
                     ELSE mapSources
    /\ rm' = [rm EXCEPT ![m] =
                [IdleRemove EXCEPT !.pc = "deleteFile", !.name = name,
                                   !.hasMap = hasMap, !.hasCb = hasCb]]
    /\ UNCHANGED <<files, styles, dl, req, ld, ul>>

\* deleteMapFile(name) settles: the record is gone, or the delete threw.
RemoveDeleteFile(m) ==
    /\ rm[m].pc = "deleteFile"
    /\ \E deleteOk \in BOOLEAN :
          IF deleteOk
            THEN /\ files' = DeleteMapFile(files, rm[m].name)
                 /\ rm' = [rm EXCEPT ![m].pc = "deleteStyle"]
            ELSE /\ files' = files
                 /\ rm' = [rm EXCEPT ![m] = RemoveThrow(rm[m], "StorageError")]
    /\ UNCHANGED <<styles, dl, req, mapLayers, mapSources, ld, ul>>

\* deleteMapStyle(name) settles: the record is gone and COMPLETE is
\* reported, or the delete threw.
RemoveDeleteStyle(m) ==
    /\ rm[m].pc = "deleteStyle"
    /\ \E deleteOk \in BOOLEAN :
          IF deleteOk
            THEN /\ styles' = DeleteMapStyle(styles, rm[m].name)
                 /\ rm' = [rm EXCEPT ![m] =
                             [rm[m] EXCEPT !.pc = "done", !.outcome = "resolved",
                                           !.reports = Append(@, COMPLETE)]]
            ELSE /\ styles' = styles
                 /\ rm' = [rm EXCEPT ![m] = RemoveThrow(rm[m], "StorageError")]
    /\ UNCHANGED <<files, dl, req, mapLayers, mapSources, ld, ul>>

\* The promise of removeMap has settled and the caller has seen it.
RemoveSettled(m) ==
    /\ rm[m].pc = "done"
    /\ rm' = [rm EXCEPT ![m] = IdleRemove]
    /\ UNCHANGED <<files, styles, dl, req, mapLayers, mapSources, ld, ul>>

-----------------------------------------------------------------------------
(* Specifications                                                           *)

DlIds == {1, 2}
ReqIds == {1, 2}
LdIds == {1}
UlIds == {1}
RmIds == {1}

\* Nothing is running and the map's style has no layer and no source.
InitIdle ==
    /\ dl = [d \in DlIds |-> IdleDownload]
    /\ req = [r \in ReqIds |-> IdleRequest]
    /\ mapLayers = {}
    /\ mapSources = {}
    /\ ld = [l \in LdIds |-> IdleLoad]
    /\ ul = [u \in UlIds |-> IdleUnload]
    /\ rm = [m \in RmIds |-> IdleRemove]

\* A fresh database.
Init ==
    /\ files = EmptyTable
    /\ styles = EmptyTable
    /\ InitIdle

\* The database as earlier downloads of two archives, one of them with a
\* style, left it.
StoredFiles == [n \in {NameA, NameAB} |-> SmallSource]
StoredStyles == [n \in {NameA} |-> DocLayers]
InitStored ==
    /\ files = StoredFiles
    /\ styles = StoredStyles
    /\ InitIdle

StyleArgs ==
    {StyleNone, StyleString(TextBlank), StyleString(TextJsonLayers),
     StyleString(TextJsonNull), StyleString(TextUrl), StyleObject(DocNoLayers)}

DownloadUrls ==
    {UrlEmpty, UrlFull, UrlRange, UrlRangeIgnored, UrlNoContentRange,
     UrlBadContentRange, UrlOther2xx, UrlMissing, UrlBig}

\* One download at a time, every kind of server and style source.
NextDownload ==
    \/ \E url \in DownloadUrls, hasCb \in BOOLEAN, s \in StyleArgs :
          DownloadStart(1, url, NameA, hasCb, s)
    \/ DownloadFirstResponse(1)
    \/ DownloadChunkResponse(1)
    \/ DownloadSaveFile(1)
    \/ DownloadStyleResponse(1)
    \/ DownloadSaveStyle(1)
    \/ DownloadSettled(1)

SpecDownload == Init /\ [][NextDownload]_vars

\* One download at a time from a range server that may stop sending bytes;
\* every fetch and every put settles.
NextStall ==
    \/ \E s \in {StyleNone, StyleString(TextUrl)} :
          DownloadStart(1, UrlRange, NameA, TRUE, s)
    \/ DownloadFirstResponse(1)
    \/ DownloadChunkResponse(1)
    \/ DownloadEmptyChunk(1)
    \/ DownloadSaveFile(1)
    \/ DownloadStyleResponse(1)
    \/ DownloadSaveStyle(1)
    \/ DownloadSettled(1)

SpecStall ==
    /\ Init /\ [][NextStall]_vars
    /\ WF_vars(DownloadFirstResponse(1))
    /\ WF_vars(DownloadChunkResponse(1) \/ DownloadEmptyChunk(1))
    /\ WF_vars(DownloadSaveFile(1))
    /\ WF_vars(DownloadStyleResponse(1))
    /\ WF_vars(DownloadSaveStyle(1))

\* offline-pmtiles://a, offline-pmtiles://a/1/0/1, offline-pmtiles://a/1/0
PathMetadata == NameA
PathTile == NameA \o <<Slash, "1", Slash, "0", Slash, "1">>
PathThreeParts == NameA \o <<Slash, "1", Slash, "0">>

HeaderVector == Header(0, 10, 0, 0, 0, 0, 1)
HeaderRaster == Header(2, 12, 2, 48, 3, 49, 2)
MetadataBounds4 ==
    Metadata(FALSE, TRUE, <<"2", Comma, "4", "8", Comma, "3", Comma, "4", "9">>,
             TRUE, 3, 9, <<>>)
MetadataZoom == Metadata(FALSE, FALSE, <<>>, TRUE, 3, 9, <<"water", "poi">>)

\* Two concurrent protocol requests, cancellable, while an archive is
\* downloaded and stored under the name they ask for.
NextResolver ==
    \/ \E hasCb \in BOOLEAN : DownloadStart(1, UrlFull, NameA, hasCb, StyleNone)
    \/ DownloadFirstResponse(1)
    \/ DownloadSaveFile(1)
    \/ DownloadSettled(1)
    \/ \E r \in ReqIds, path \in {PathMetadata, PathTile, PathThreeParts},
          hasCtl \in BOOLEAN, aborted \in BOOLEAN :
          RequestStart(r, path, hasCtl, aborted)
    \/ \E r \in ReqIds : RequestGetFile(r)
    \/ \E r \in ReqIds : RequestHeader(r, {HeaderVector})
    \/ \E r \in ReqIds : RequestMetadata(r, {MetadataZoom})
    \/ \E r \in ReqIds : RequestTile(r, (0..MaxOffset) \X (0..MaxLength))
    \/ \E r \in ReqIds : RequestAbort(r)
    \/ \E r \in ReqIds : RequestSettled(r)

SpecResolver == Init /\ [][NextResolver]_vars

PathTileAB == NameAB \o <<Slash, "1", Slash, "0", Slash, "1">>

\* Downloads of two names, with and without a style, a removeMap and a
\* protocol request.
NextStorage ==
    \/ \E name \in {NameA, NameAB}, s \in {StyleNone, StyleObject(DocLayers)} :
          DownloadStart(1, UrlFull, name, TRUE, s)
    \/ DownloadFirstResponse(1)
    \/ DownloadSaveFile(1)
    \/ DownloadSaveStyle(1)
    \/ DownloadSettled(1)
    \/ \E name \in {NameA, NameAB}, hasMap \in BOOLEAN :
          RemoveStart(1, name, hasMap, TRUE)
    \/ RemoveDeleteFile(1)
    \/ RemoveDeleteStyle(1)
    \/ RemoveSettled(1)
    \/ \E path \in {PathMetadata, PathTile, PathTileAB} :
          RequestStart(1, path, FALSE, FALSE)
    \/ RequestGetFile(1)
    \/ RequestHeader(1, {HeaderVector})
    \/ RequestMetadata(1, {MetadataZoom})
    \/ RequestTile(1, {<<0, 1>>})
    \/ RequestSettled(1)

SpecStorage == Init /\ [][NextStorage]_vars

\* Two downloads under the same name that may overlap, from two servers
\* that send different bytes, with and without a style, and a tile request.
NextOverlap ==
    \/ \E d \in DlIds, s \in {StyleNone, StyleObject(DocLayers)} :
          DownloadStart(d, IF d = 1 THEN UrlFull ELSE UrlNoContentRange,
                        NameA, TRUE, s)
    \/ \E d \in DlIds : DownloadFirstResponse(d)
    \/ \E d \in DlIds : DownloadSaveFile(d)
    \/ \E d \in DlIds : DownloadSaveStyle(d)
    \/ \E d \in DlIds : DownloadSettled(d)
    \/ RequestStart(1, PathTile, FALSE, FALSE)
    \/ RequestGetFile(1)
    \/ RequestTile(1, {<<0, 1>>})
    \/ RequestSettled(1)

SpecOverlap == Init /\ [][NextOverlap]_vars

\* loadMap and unloadMap of two stored archives, and a protocol request.
\* The archives' headers say vector (1), PNG (2) or unknown (0, NoHeader).
NextUnload ==
    \/ \E name \in {NameA, NameAB}, hasCb \in BOOLEAN : LoadStart(1, name, hasCb)
    \/ LoadGetFile(1)
    \/ LoadHeader(1, {HeaderVector, HeaderRaster, NoHeader})
    \/ LoadMetadata(1, {MetadataZoom, NullMetadata})
    \/ LoadStyle(1)
    \/ LoadSettled(1)
    \/ \E name \in {NameA, NameAB} : UnloadMap(1, name)
    \/ UnloadReturned(1)
    \/ \E path \in {PathMetadata, PathTile, PathTileAB} :
          RequestStart(1, path, FALSE, FALSE)
    \/ RequestGetFile(1)
    \/ RequestHeader(1, {HeaderVector, HeaderRaster})
    \/ RequestMetadata(1,
          {MetadataZoom, NullMetadata, MetadataBounds4,
           \* minzoom: 0, maxzoom: 9
           Metadata(FALSE, FALSE, <<>>, TRUE, 0, 9, <<>>),
           \* bounds: "2,48,3" (with minzoom: 3, maxzoom: 9) and "x,48,3,49"
           Metadata(FALSE, TRUE, <<"2", Comma, "4", "8", Comma, "3">>,
                    TRUE, 3, 9, <<>>),
           Metadata(FALSE, TRUE, <<"x", Comma, "4", "8", Comma, "3", Comma, "4", "9">>,
                    FALSE, 0, 0, <<>>)})
    \/ RequestTile(1, {<<0, 1>>})
    \/ RequestSettled(1)

SpecUnload == InitStored /\ [][NextUnload]_vars

\* loadMap, unloadMap and removeMap of two stored archives on one map.
NextEngine ==
    \/ \E name \in {NameA, NameAB}, hasCb \in BOOLEAN : LoadStart(1, name, hasCb)
    \/ LoadGetFile(1)
    \/ LoadHeader(1, {HeaderVector, HeaderRaster})
    \/ LoadMetadata(1, {MetadataZoom, NullMetadata})
    \/ LoadStyle(1)
    \/ LoadSettled(1)
    \/ \E name \in {NameA, NameAB} : UnloadMap(1, name)
    \/ UnloadReturned(1)
    \/ \E name \in {NameA, NameAB}, hasMap \in BOOLEAN, hasCb \in BOOLEAN :
          RemoveStart(1, name, hasMap, hasCb)
    \/ RemoveDeleteFile(1)
    \/ RemoveDeleteStyle(1)
    \/ RemoveSettled(1)

SpecEngine == InitStored /\ [][NextEngine]_vars

-----------------------------------------------------------------------------
(* Properties of downloadMap                                                *)

Codes(rec) == {rec.reports[i].code : i \in 1..Len(rec.reports)}
LastCode(rec) == rec.reports[Len(rec.reports)].code

\* The invocation went through the chunk loop and returned normally.
ChunkedDone(d) ==
    /\ dl[d].pc = "done"
    /\ dl[d].outcome = "resolved"
    /\ dl[d].chunks # <<>>

\* Byte i (from 1) of the chunks laid end to end in fetch order.
RECURSIVE ByteAt(_, _)
ByteAt(chunks, i) ==
    IF i <= Len(Head(chunks)) THEN Head(chunks)[i]
    ELSE ByteAt(Tail(chunks), i - Len(Head(chunks)))

RECURSIVE TotalLen(_)
TotalLen(chunks) ==
    IF chunks = <<>> THEN 0 ELSE Len(Head(chunks)) + TotalLen(Tail(chunks))

\* C1: once a chunked download has completed, the blob stored under its name
\* is, byte for byte, the received chunks in fetch order; and when the server
\* honours the range requests it is the source file itself.
C1_ChunkedRoundTrip ==
    \A d \in DOMAIN dl :
        ChunkedDone(d) =>
            /\ HasFile(dl[d].name)
            /\ Len(files[dl[d].name]) = TotalLen(dl[d].chunks)
            /\ \A i \in 1..Len(files[dl[d].name]) :
                  files[dl[d].name][i] = ByteAt(dl[d].chunks, i)
            /\ RangeKind(dl[d].url) => files[dl[d].name] = Source(dl[d].url)

\* A completed download of three chunks, one of them empty, from a server
\* that honours ranges.
C1_Witness ==
    \E d \in DOMAIN dl :
        /\ ChunkedDone(d)
        /\ dl[d].url = UrlRange
        /\ Len(dl[d].chunks) = 3
        /\ \E i \in 1..3 : dl[d].chunks[i] = <<>>
        /\ files[dl[d].name] = SmallSource

\* The first response is a success that is not read in chunks: 200, 206
\* without Content-Range, or another 2xx status.
SingleResponse(rec) ==
    /\ rec.responses # <<>>
    /\ rec.responses[1].kind = "http"
    /\ Ok(rec.responses[1].status)
    /\ \/ rec.responses[1].status # 206
       \/ ~rec.responses[1].hasCR

\* C2: when the first response is a 200, a 206 without Content-Range or any
\* other success, no range request is sent, and once the download has
\* completed the blob stored under its name is that response's body.
C2_SingleResponseDownload ==
    \A d \in DOMAIN dl :
        SingleResponse(dl[d]) =>
            /\ Len(dl[d].fetches) = 1
            /\ ~dl[d].fetches[1].hasRange
            /\ Len(dl[d].responses) = 1
            /\ (dl[d].pc = "done" /\ dl[d].outcome = "resolved") =>
                  /\ HasFile(dl[d].name)
                  /\ files[dl[d].name] = dl[d].responses[1].body

\* A completed download whose only response was a 206 without Content-Range
\* carrying two of the three bytes.
C2_Witness ==
    \E d \in DOMAIN dl :
        /\ SingleResponse(dl[d])
        /\ dl[d].pc = "done" /\ dl[d].outcome = "resolved"
        /\ dl[d].responses[1].status = 206
        /\ files[dl[d].name] = <<11, 22>>

\* C3: a QuotaExceededError thrown by a put is reported as ERROR_QUOTA and
\* never as ERROR; every other failure is reported as ERROR and never as
\* ERROR_QUOTA.
C3_QuotaCode ==
    \A d \in DOMAIN dl :
        /\ (dl[d].outcome = "rejected" /\ dl[d].errName = "QuotaExceededError") =>
              /\ LastCode(dl[d]) = ERROR_QUOTA
              /\ ERROR \notin Codes(dl[d])
        /\ (dl[d].outcome = "rejected" /\ dl[d].errName # "QuotaExceededError") =>
              /\ LastCode(dl[d]) = ERROR
              /\ ERROR_QUOTA \notin Codes(dl[d])
        /\ dl[d].outcome # "rejected" => ERROR_QUOTA \notin Codes(dl[d])

\* The put of the style ran out of quota after the archive had been stored.
C3_Witness ==
    \E d \in DOMAIN dl :
        /\ dl[d].outcome = "rejected"
        /\ dl[d].errName = "QuotaExceededError"
        /\ Truthy(dl[d].styleJson)
        /\ HasFile(dl[d].name)
        /\ LastCode(dl[d]) = ERROR_QUOTA

ErrorReported(rec) == Codes(rec) \cap {ERROR, ERROR_QUOTA} # {}

\* C4 as stated: in every invocation an error status is reported if and
\* only if the call rejects.
C4_DualNotificationEveryInvocation ==
    \A d \in DOMAIN dl :
        ErrorReported(dl[d]) <=> dl[d].outcome = "rejected"

\* C4, amended: in every invocation with a non-empty url an error status is
\* reported if and only if the call rejects, with or without onProgress.
C4_DualNotification ==
    \A d \in DOMAIN dl :
        dl[d].url # UrlEmpty =>
            (ErrorReported(dl[d]) <=> dl[d].outcome = "rejected")

\* A failed download without onProgress: reported (to the console) and rejected.
C4_Witness ==
    \E d \in DOMAIN dl :
        /\ dl[d].url # UrlEmpty
        /\ ~dl[d].hasCb
        /\ dl[d].outcome = "rejected"
        /\ LastCode(dl[d]) = ERROR

\* The progress values reported so far, as tenths of a percent.
ProgressValues(rec) ==
    SelectSeq(rec.reports, LAMBDA r : r.progress.kind = "num")

\* C10: the reported percentages never decrease, and 100.0 is reported only
\* when receivedLength equals totalSize.
C10_ProgressMonotoneExact ==
    \A d \in DOMAIN dl :
        LET ps == ProgressValues(dl[d]) IN
        /\ \A i \in 1..Len(ps) : \A j \in i..Len(ps) :
              ps[i].progress.tenths <= ps[j].progress.tenths
        /\ (ps # <<>> /\ ps[Len(ps)].progress.tenths = 1000) =>
              dl[d].receivedLength = dl[d].totalSize

Terminal == {COMPLETE, ERROR, ERROR_QUOTA}

StatusFailure(rec) ==
    /\ rec.responses # <<>>
    /\ rec.responses[Len(rec.responses)].kind = "http"
    /\ rec.responses[Len(rec.responses)].status \notin 200..299

\* Such an invocation has ended with an error that carries the status, has
\* reported ERROR and has called neither saveMapFile nor saveMapStyle.
StatusFailureAborts ==
    \A d \in DOMAIN dl :
        StatusFailure(dl[d]) =>
            /\ dl[d].pc = "done"
            /\ dl[d].outcome = "rejected"
            /\ dl[d].errName = "Error"
            /\ dl[d].errStatus = dl[d].responses[Len(dl[d].responses)].status
            /\ LastCode(dl[d]) = ERROR
            /\ dl[d].puts = <<>>
            /\ dl[d].written = {}

\* The tables change only in a step of an invocation that has called a
\* save, and the record of the saves called only grows during an invocation.
StorageOnlyThroughPuts ==
    /\ (files' # files \/ styles' # styles) =>
           \E d \in DOMAIN dl : dl[d].pc \notin {"idle", "done"} /\ dl[d].puts # <<>>
    /\ \A d \in DOMAIN dl :
           dl[d].pc \notin {"idle", "done"} => Len(dl'[d].puts) >= Len(dl[d].puts)

\* C16: when the initial GET or a later range request returns a non-success
\* status, downloadMap fails with an error carrying that status, reports
\* ERROR, calls neither saveMapFile nor saveMapStyle, and leaves the archive
\* and style records of the name as they were.
C16_StatusFailureAborts == []StatusFailureAborts /\ [][StorageOnlyThroughPuts]_vars

\* A range request answered 503 after a chunk was received, while the
\* archive of an earlier download is still stored.
C16_Witness ==
    /\ dl[1].pc = "done" /\ StatusFailure(dl[1])
    /\ Len(dl[1].chunks) >= 1 /\ Len(dl[1].responses) >= 2
    /\ dl[1].errStatus = 503
    /\ HasFile(NameA) /\ files[NameA] = SmallSource

\* C17: in every state of a chunked download whose total length is known,
\* the received-length counter is at most the total length, whatever chunk
\* sizes the server returns.
C17_ReceivedWithinTotal ==
    \A d \in DOMAIN dl :
        dl[d].chunks # <<>> => dl[d].receivedLength <= dl[d].totalSize

\* C18: every chunked download eventually reports COMPLETE, ERROR or
\* ERROR_QUOTA, given that every fetch and every storage call settles.
C18_ChunkLoopTerminates ==
    (dl[1].pc # "idle" /\ dl[1].chunks # <<>>) ~>
        (dl[1].pc = "done" /\ LastCode(dl[1]) \in Terminal)

\* The requests for the archive made and not yet answered.
InFlight(rec) == Len(rec.fetches) - Len(rec.responses)

\* C19: within one download at most one request is in flight; the k-th
\* range request is made only after the bodies of all the earlier
\* responses were read and appended, and asks for the open-ended range
\* that starts at the sum of the sizes of the chunks appended so far.
C19_SequentialRanges ==
    \A d \in DOMAIN dl :
        LET rec == dl[d] IN
        /\ InFlight(rec) \in {0, 1}
        /\ InFlight(rec) = 1 <=> rec.pc \in {"fetch", "range"}
        /\ \A j \in DOMAIN rec.fetches :
              IF j = 1 THEN ~rec.fetches[j].hasRange
              ELSE /\ rec.fetches[j].hasRange
                   /\ Len(rec.responses) >= j - 1
                   /\ Len(rec.chunks) >= j - 1
                   /\ \A i \in 1..(j - 1) : rec.chunks[i] = rec.responses[i].body
                   /\ rec.fetches[j].start =
                         Len(NewBlob(SubSeq(rec.chunks, 1, j - 1)))

\* A second range request in flight, after two non-empty chunks.
C19_Witness ==
    /\ dl[1].pc = "range" /\ InFlight(dl[1]) = 1
    /\ Len(dl[1].fetches) = 3 /\ Len(dl[1].chunks) = 2
    /\ dl[1].fetches[2].start > 0
    /\ dl[1].fetches[3].start > dl[1].fetches[2].start

\* C20: whenever downloadMap has reported COMPLETE, this invocation has
\* written the archive under the name and, when a styleSource was given, a
\* style document under the name as well.
C20_CompleteMeansPersisted ==
    \A d \in DOMAIN dl :
        (dl[d].reports # <<>> /\ LastCode(dl[d]) = COMPLETE) =>
            /\ "file" \in dl[d].written
            /\ HasFile(dl[d].name) /\ files[dl[d].name] = dl[d].blob
            /\ StyleArgTruthy(dl[d].styleSource) =>
                  /\ "style" \in dl[d].written
                  /\ dl[d].name \in DOMAIN styles

\* The invocation wrote the archive and then ended without COMPLETE: its
\* style step failed (the style fetch, the parsing of its body, or the put).
StyleStepFailed(rec) ==
    /\ rec.pc = "done"
    /\ "file" \in rec.written
    /\ LastCode(rec) # COMPLETE

\* Such an invocation reported an error and rethrew, its archive is stored
\* and it wrote no style.
StyleFailureKeepsArchive ==
    \A d \in DOMAIN dl :
        StyleStepFailed(dl[d]) =>
            /\ LastCode(dl[d]) \in {ERROR, ERROR_QUOTA}
            /\ dl[d].outcome = "rejected"
            /\ HasFile(dl[d].name) /\ files[dl[d].name] = dl[d].blob
            /\ "style" \notin dl[d].written

\* The styles table changes only in the step in which an invocation's
\* saveMapStyle succeeds.
StylesOnlyBySavedStyle ==
    styles' # styles =>
        \E d \in DOMAIN dl :
            "style" \notin dl[d].written /\ "style" \in dl'[d].written

\* C21: when the style step of downloadMap fails, the invocation reports an
\* error and rethrows, the archive it wrote stays stored under the name and
\* the style record of the name is what it was before the invocation.
C21_StyleFailureKeepsArchive ==
    []StyleFailureKeepsArchive /\ [][StylesOnlyBySavedStyle]_vars

\* The fetch of a style URL failed after the archive was written, while the
\* style of an earlier download is stored.
C21_Witness ==
    /\ StyleStepFailed(dl[1])
    /\ dl[1].styleSource = StyleString(TextUrl)
    /\ dl[1].puts = <<"file">>
    /\ NameA \in DOMAIN styles

\* The blob an invocation assembled: the chunks in order, or the body of
\* its only response.
AssembledBlob(rec) ==
    IF rec.chunks # <<>> THEN NewBlob(rec.chunks)
    ELSE rec.responses[Len(rec.responses)].body

\* saveMapFile of invocation d succeeds in this step.
PutArchiveBy(d) == "file" \notin dl[d].written /\ "file" \in dl'[d].written

\* The files table changes only when the saveMapFile of one invocation
\* succeeds, and then the record of the name becomes the whole blob that
\* invocation assembled, whatever record was there; a request's read of
\* storage gets the record as it is stored at that moment.
WholesaleOverwrite ==
    /\ \A d \in DOMAIN dl :
          PutArchiveBy(d) =>
              /\ dl[d].pc = "saveFile"
              /\ dl[d].blob = AssembledBlob(dl[d])
              /\ DOMAIN files' = DOMAIN files \cup {dl[d].name}
              /\ files'[dl[d].name] = dl[d].blob
              /\ \A n \in DOMAIN files \ {dl[d].name} : files'[n] = files[n]
    /\ files' # files => \E d \in DOMAIN dl : PutArchiveBy(d)
    /\ \A r \in DOMAIN req :
          (req[r].pc = "getFile" /\ req'[r].found) =>
              /\ HasFile(req[r].name)
              /\ req'[r].blob = files[req[r].name]
              /\ files' = files

\* C23: whatever the interleaving of downloadMap invocations on one name,
\* the archive stored for the name is absent or is exactly the whole blob
\* assembled by one invocation, the one whose saveMapFile succeeded last;
\* a tile request reads such a whole blob.
C23_LastWriteWins == [][WholesaleOverwrite]_vars

\* Two overlapping downloads of the same name have both stored their blob,
\* the second over the first, and a request has read the record.
C23_Witness ==
    /\ dl[1].pc = "done" /\ dl[2].pc = "saveStyle"
    /\ dl[1].name = dl[2].name
    /\ "file" \in dl[1].written /\ "file" \in dl[2].written
    /\ dl[1].blob # dl[2].blob
    /\ files[NameA] = dl[2].blob
    /\ req[1].pc = "tile" /\ req[1].blob = dl[1].blob

\* C26: when no downloadMap is running and a name has both an archive
\* record and a style record, one invocation wrote both. Where invocations
\* run one after another, the invocation that has just returned after
\* writing the archive is the archive's last writer, so it must be the
\* writer of the style as well.
C26_PairFromOneInvocation ==
    \A d \in DOMAIN dl :
        ( /\ dl[d].pc = "done"
          /\ \A e \in DOMAIN dl \ {d} : dl[e].pc = "idle"
          /\ "file" \in dl[d].written
          /\ HasFile(dl[d].name)
          /\ dl[d].name \in DOMAIN styles ) =>
            /\ "style" \in dl[d].written
            /\ styles[dl[d].name] = dl[d].styleJson

-----------------------------------------------------------------------------
(* Properties of removeMap and unloadMap                                    *)

\* removeMap has completed, and no put for its name succeeded since it was
\* called.
Removed(m) ==
    /\ rm[m].pc = "done"
    /\ rm[m].outcome = "resolved"
    /\ ~rm[m].disturbed

\* Neither table holds a record for the removed name.
C6_RecordsGone ==
    \A m \in DOMAIN rm :
        Removed(m) =>
            /\ rm[m].name \notin DOMAIN files
            /\ rm[m].name \notin DOMAIN styles

\* The storage read of a request for the removed name finds nothing: the
\* request ends rejected, as not found unless the read itself failed.
C6_LaterRequest ==
    \A m \in DOMAIN rm : \A r \in DOMAIN req :
        ( /\ Removed(m)
          /\ req[r].name = rm[m].name
          /\ req[r].pc = "getFile"
          /\ req'[r].pc # "getFile" ) =>
            /\ req'[r].pc = "done"
            /\ req'[r].outcome = "rejected"
            /\ req'[r].error \in {"NotFound", "StorageError"}

\* C6: once removeMap(map, name) has completed, whatever downloads preceded
\* it, storage holds neither the archive record nor the style record of
\* name, and a later metadata or tile request for name fails as not found.
C6_RemoveClearsStorage == []C6_RecordsGone /\ [][C6_LaterRequest]_vars

\* A download of the archive and its style had completed before removeMap
\* was called; removeMap completed, and a tile request for the name was
\* rejected as not found.
C6_Witness ==
    /\ Removed(1) /\ rm[1].name = NameA
    /\ dl[1].pc = "done" /\ dl[1].outcome = "resolved"
    /\ dl[1].name = NameA /\ Truthy(dl[1].styleJson)
    /\ req[1].pc = "done" /\ req[1].path = PathTile
    /\ req[1].error = "NotFound"

\* Storage is what it was before any loadMap or unloadMap.
C7_StorageKept == files = StoredFiles /\ styles = StoredStyles

\* Every request for a stored name returns a result, unless a read of the
\* database or of the archive failed.
C7_RequestsResolve ==
    \A r \in DOMAIN req :
        req[r].pc = "done" =>
            \/ req[r].outcome = "resolved"
            \/ req[r].error \in {"StorageError", "ReaderError"}

\* The step of unloadMap changes neither table.
C7_UnloadFrame ==
    \A u \in DOMAIN ul :
        (ul[u].pc = "idle" /\ ul'[u].pc = "done") =>
            files' = files /\ styles' = styles

\* C7: unloadMap(map, name) leaves the archive record and the style record
\* of every name as they were, and metadata and tile requests for name
\* still resolve after it.
C7_UnloadKeepsStorage ==
    [](C7_StorageKept /\ C7_RequestsResolve) /\ [][C7_UnloadFrame]_vars

\* The archive was loaded, unloadMap took its layers and its source off the
\* map, and a tile request for it returned a tile.
C7_Witness ==
    /\ ul[1].pc = "done" /\ ul[1].name = NameA
    /\ ld[1].pc = "done" /\ ld[1].name = NameA /\ ld[1].reports = <<COMPLETE>>
    /\ SourceId(NameA) \notin mapSources
    /\ ~\E l \in mapLayers : l.source = SourceId(NameA)
    /\ req[1].pc = "done" /\ req[1].path = PathTile
    /\ req[1].data.kind = "tile"

\* The layers that loadMap added for the other names, and the other names'
\* sources, are still in the style after the step.
OthersKept(name) ==
    /\ \A l \in mapLayers : l.owner # name => l \in mapLayers'
    /\ \A s \in mapSources : s # SourceId(name) => s \in mapSources'

\* C8: unloadMap(map, name) and removeMap(map, name) take off the map only
\* the layers and the source of name: those of every other loaded archive
\* are still there afterwards.
C8_OnlyOwnLayersRemoved ==
    [][ /\ \A u \in DOMAIN ul :
              (ul[u].pc = "idle" /\ ul'[u].pc = "done") => OthersKept(ul'[u].name)
        /\ \A m \in DOMAIN rm :
              (rm[m].pc = "idle" /\ rm'[m].pc # "idle" /\ rm'[m].hasMap) =>
                  OthersKept(rm'[m].name) ]_vars

\* C12: the source that loadMap declares for a stored archive follows the
\* tile-type code of its header: 2 gives a raster source, 1 a vector source,
\* and a code outside 1..4 a vector source.
C12_DescriptorFollowsTileType ==
    \A l \in DOMAIN ld :
        ld[l].sourceType # "" =>
            /\ ld[l].header.tileType = 2 => ld[l].sourceType = "raster"
            /\ ld[l].header.tileType = 1 => ld[l].sourceType = "vector"
            /\ ld[l].header.tileType \notin 1..4 => ld[l].sourceType = "vector"

-----------------------------------------------------------------------------
(* Properties of the protocol handler                                       *)

\* C5: a tile request for which the archive reader finds no tile, and whose
\* signal is not set, returns { data: null } and does not throw.
C5_AbsentTileIsEmpty ==
    \A r \in DOMAIN req :
        ( /\ req[r].pc = "done"
          /\ Len(req[r].parts) = 4
          /\ req[r].response.answered /\ ~req[r].response.found
          /\ ~SignalAborted(req[r]) ) =>
            /\ req[r].outcome = "resolved"
            /\ req[r].data.kind = "null"
            /\ req[r].consoleErrors = 0

\* A tile request on the stored archive ended with the empty result.
C5_Witness ==
    \E r \in DOMAIN req :
        /\ req[r].pc = "done"
        /\ req[r].path = PathTile
        /\ req[r].found /\ req[r].blob = SmallSource
        /\ req[r].response.answered /\ ~req[r].response.found
        /\ req[r].data.kind = "null"

\* The metadata declares a bounds string of four comma-separated numbers.
FourNumbers(metadata) ==
    /\ ~metadata.isNull
    /\ metadata.hasBounds
    /\ LET b == Split(metadata.bounds, Comma) IN
       /\ Len(b) = 4
       /\ \A i \in 1..4 : b[i] # <<>> /\ \A j \in 1..Len(b[i]) : DigitValue(b[i][j]) >= 0

\* C13: the bounds of the TileJSON are the metadata's when both longitude
\* bounds of the header are zero and the metadata declares four
\* comma-separated numbers, and the header's in every other case.
C13_BoundsResolution ==
    \A r \in DOMAIN req :
        (req[r].pc = "done" /\ req[r].data.kind = "tilejson") =>
            LET h == req[r].header
                m == req[r].metadata IN
            IF h.minLon = 0 /\ h.maxLon = 0 /\ FourNumbers(m)
              THEN req[r].data.bounds =
                     [i \in 1..4 |-> Num(DigitsFrom(Split(m.bounds, Comma)[i], 0))]
              ELSE req[r].data.bounds =
                     << Num(h.minLon), Num(h.minLat), Num(h.maxLon), Num(h.maxLat) >>

\* C24: the zoom range of the TileJSON is the metadata's numeric minzoom and
\* maxzoom exactly when the metadata declares them and the bounds fallback
\* was not used, and the header's in every other case; the two overrides
\* are never applied together.
C24_ZoomResolution ==
    \A r \in DOMAIN req :
        (req[r].pc = "done" /\ req[r].data.kind = "tilejson") =>
            LET h == req[r].header
                m == req[r].metadata
                fallbackUsed == h.minLon = 0 /\ h.maxLon = 0 /\ FourNumbers(m)
                declared == ~m.isNull /\ m.hasZoom IN
            IF declared /\ ~fallbackUsed
              THEN /\ req[r].data.minzoom = m.minzoom
                   /\ req[r].data.maxzoom = m.maxzoom
              ELSE /\ req[r].data.minzoom = h.minZoom
                   /\ req[r].data.maxzoom = h.maxZoom

\* C25: a read of BlobSource that does not fail returns a buffer of exactly
\* `length` bytes, the bytes [offset, offset + length) of the blob, for
\* every offset and length, ranges past the end of the blob included.
C25_ExactRange ==
    \A r \in DOMAIN req :
        req[r].response.answered =>
            LET offset == req[r].range[1]
                length == req[r].range[2] IN
            /\ Len(req[r].buffer) = length
            /\ \A i \in 1..length : req[r].buffer[i] = req[r].blob[offset + i]

\* C14: a request whose path is not made of exactly 1 or exactly 4
\* components ends with an error: it never completes successfully.
C14_OtherShapesRejected ==
    \A r \in DOMAIN req :
        (req[r].pc = "done" /\ Len(req[r].parts) \notin {1, 4}) =>
            req[r].outcome = "rejected"

\* A request that failed before the archive was opened never used the reader.
NoReaderOnEarlyFailure ==
    \A r \in DOMAIN req :
        req[r].error \in {"NotFound", "StorageError"} =>
            /\ req[r].outcome = "rejected"
            /\ ~req[r].found
            /\ req[r].lookups = 0
            /\ ~req[r].response.answered

\* The storage read of a request, made while the files table has no record
\* of the name, ends the request as not found (or with the error of the
\* read itself when the database fails).
MissingNameStep ==
    \A r \in DOMAIN req :
        ( /\ req[r].pc = "getFile"
          /\ req'[r].pc # "getFile"
          /\ ~HasFile(req[r].name) ) =>
            /\ req'[r].pc = "done"
            /\ req'[r].outcome = "rejected"
            /\ req'[r].error \in {"NotFound", "StorageError"}
            /\ req'[r].lookups = 0

\* C15: a metadata or tile request whose name has no archive record when the
\* handler reads storage (never downloaded, download failed before the
\* record was written, or removed) fails as not found and never reaches the
\* archive reader.
C15_MissingNameNotFound == []NoReaderOnEarlyFailure /\ [][MissingNameStep]_vars

\* A request for a name whose download failed before the record was written.
C15_Witness ==
    /\ dl[1].pc = "done" /\ dl[1].outcome = "rejected"
    /\ dl[1].name = NameA /\ dl[1].written = {}
    /\ rm[1].pc = "idle"
    /\ req[1].pc = "done" /\ req[1].path = PathMetadata
    /\ req[1].error = "NotFound" /\ req[1].lookups = 0

\* A request whose signal is set has not returned a descriptor or a tile:
\* it ended as aborted, unlogged, unless storage or the reader failed first.
AbortedReturnsNothing ==
    \A r \in DOMAIN req :
        (req[r].pc = "done" /\ req[r].hasCtl /\ req[r].aborted) =>
            /\ req[r].outcome = "rejected"
            /\ req[r].data = NoData
            /\ \/ req[r].error = "Aborted" /\ req[r].consoleErrors = 0
               \/ req[r].error = "NotFound" /\ ~req[r].found
               \/ req[r].error \in {"StorageError", "ReaderError"}

\* Every step that passes a check point with the signal set ends the request
\* as aborted: the call of the handler (before the archive is loaded), the
\* arrival of the blob (before the reader is bound and before the tile
\* lookup), and the arrival of the metadata or of the tile (before
\* responding). A request cancelled when the handler is called reads nothing.
CheckPointStep ==
    \A r \in DOMAIN req :
        /\ (req[r].pc = "idle" /\ req'[r].pc # "idle"
                /\ req'[r].hasCtl /\ req'[r].aborted) =>
              /\ req'[r].pc = "done" /\ req'[r].error = "Aborted"
              /\ req'[r].reads = 0 /\ req'[r].lookups = 0
        /\ (req[r].pc = "getFile" /\ req'[r].found
                /\ req[r].hasCtl /\ req[r].aborted) =>
              /\ req'[r].pc = "done" /\ req'[r].error = "Aborted"
              /\ req'[r].lookups = 0
        /\ (req[r].pc \in {"metadata", "tile"} /\ req'[r].pc = "done"
                /\ req'[r].error # "ReaderError"
                /\ req[r].hasCtl /\ req[r].aborted) =>
              req'[r].error = "Aborted"

\* C22: the handler looks at the request's signal before loading the
\* archive, before binding the reader, before the tile lookup and before
\* responding; when the signal is set at one of these points the request
\* ends as aborted and returns neither a descriptor nor tile bytes, and a
\* request cancelled before the handler starts reads nothing from storage.
C22_CancellationCheckPoints == []AbortedReturnsNothing /\ [][CheckPointStep]_vars

\* One request cancelled before the handler started, another cancelled
\* while the metadata was read.
C22_Witness ==
    /\ req[1].pc = "done" /\ req[1].error = "Aborted" /\ req[1].reads = 0
    /\ req[2].pc = "done" /\ req[2].error = "Aborted" /\ req[2].lookups = 2
    /\ Len(req[2].parts) = 1 /\ req[2].metadata = MetadataZoom

\* What a request returns on its own, from what storage and the archive
\* reader answered to it.
ResultAlone(rec) ==
    IF Len(rec.parts) = 1 THEN Descriptor(rec.name, rec.header, rec.metadata)
    ELSE IF Len(rec.parts) = 4 THEN TileResult(rec.response)
    ELSE [NoData EXCEPT !.kind = "undefined"]

\* Only a request whose own signal is set ends with Aborted; a request
\* whose signal is not set ends with its own result.
C9_OwnSignalOnly ==
    \A r \in DOMAIN req :
        /\ req[r].error = "Aborted" => (req[r].hasCtl /\ req[r].aborted)
        /\ (req[r].pc = "done" /\ ~SignalAborted(req[r])) =>
              \/ req[r].outcome = "resolved" /\ req[r].data = ResultAlone(req[r])
              \/ /\ req[r].outcome = "rejected"
                 /\ req[r].error \in {"StorageError", "ReaderError"}
              \/ /\ req[r].outcome = "rejected"
                 /\ req[r].error = "NotFound" /\ ~req[r].found

\* Setting the signal of one request changes no other request, no download
\* and nothing in storage.
C9_AbortFrame ==
    \A r \in DOMAIN req :
        (~req[r].aborted /\ req'[r].aborted /\ req[r].pc # "idle") =>
            /\ \A r2 \in DOMAIN req \ {r} : req'[r2] = req[r2]
            /\ dl' = dl
            /\ files' = files /\ styles' = styles

\* C9: cancellation is per request: under every interleaving, only the
\* request whose signal was set ends with Aborted, the others end with
\* their own results, and a running download is not affected.
C9_PerRequestCancellation == []C9_OwnSignalOnly /\ [][C9_AbortFrame]_vars

\* One request ended with Aborted while the other returned a tile and a
\* download of the same archive was storing its blob.
C9_Witness ==
    /\ req[1].pc = "done" /\ req[1].error = "Aborted"
    /\ req[2].pc = "done" /\ req[2].outcome = "resolved"
    /\ req[2].data.kind = "tile" /\ ~req[2].aborted
    /\ dl[1].pc = "saveFile"

====
